---- MODULE Spec2Model ----
(***************************************************************************)
(* devxbots/automatons: the task-execution engine (Automaton::execute in   *)
(* its chained and its list-based form) and the GitHub App TokenFactory    *)
(* (app() / installation() with their two mutex-guarded token slots).      *)
(***************************************************************************)
EXTENDS Integers, Sequences, FiniteSets, TLC

VARIABLES
    \* ---- engine (automatons/src/lib.rs, automaton/src/lib.rs)
    variant,    \* "chain": Transition::Next(task) form, "list": Vec of constructors
    teardown,   \* complete_task(): "none" (None), "noop" (NoopTask), "custom"
    nTasks,     \* list form: length of tasks()
    epc,        \* position inside execute(): "loop", "in_task", "teardown",
                \* "in_teardown", "returned"
    task,       \* chain: the current boxed task, list: index of the iterator
    output,     \* chain: automaton_output
    store,      \* list: the State handed to every task
    result,     \* what execute() returned
    calls,      \* the Task::execute calls that have returned, in order
    executing,  \* the tasks whose Task::execute has been called and not returned
    seen,       \* list: the State handed to the task being executed
    program,    \* "any": arbitrary tasks, "hello_world": tests/hello-world.rs
    \* ---- token factory (integrations/github/src/client/token.rs)
    clock,      \* Utc::now(), in ticks
    private_key,\* "valid" or "malformed" PEM
    app_token,  \* the Token behind the app_token mutex
    installation_token, \* the Token behind the installation_token mutex
    app_lock,   \* holder of the app_token mutex, or None
    installation_lock, \* holder of the installation_token mutex, or None
    pc,         \* per caller: position inside app() / installation()
    op,         \* per caller: the outermost call it is in
    frame,      \* per caller: the arguments and locals of the calls it is in
    ret,        \* per caller: what its last finished outermost call returned
    trail,      \* per caller: what the current call has observed and done
    ncalls,     \* outermost calls started so far, all callers together
    produced,   \* every token built so far: by the constructor, a mint, an exchange
    \* ---- State used on its own (automatons/src/state.rs); the State is `store`
    lastop,     \* the latest State operation: its name, type, argument, return value
    inserts,    \* per type: the value of the latest insert, or None
    touched,    \* types written through a get_mut reference since their latest insert
    \* ---- GitHubClient (integrations/github/src/client/mod.rs)
    installation_id, \* the client's installation_id field
    cpc,        \* where the client is: idle, client (in client()), authorizing, sending
    cop,        \* the operation in progress: method, page, collection so far
    grants,     \* what each installation() call of the client returned, in order
    requests,   \* the HTTP requests the client sent to the platform, in order
    cresult,    \* what the latest operation returned
    cresponse,  \* the response the latest request of the operation got
    \* ---- per-endpoint tasks (integrations/github/src/task/*.rs)
    tkind,      \* which task is executed
    tpc,        \* position inside Task::execute
    tstate,     \* the State handed to the task: per type, present or not, and the value
    tbefore,    \* the State as it was when execute was called
    tcalls,     \* the GitHubClient operations the task has started, in order
    tret,       \* what execute returned
    suites,     \* ListCheckRunsForGitSha: the check suites listed
    subs,       \* ListCheckRunsForGitSha: per suite, the state of its sub-request
    finished,   \* ListCheckRunsForGitSha: the suites whose sub-request completed, in order
    \* ---- webhook handler (runtime/ingress/src/github.rs)
    github_webhook_secret, \* AppState.github_webhook_secret
    ipc,        \* position inside github_webhook_handler: idle, received, sending
    ireq,       \* the request being handled: signature header, event header, body
    queue,      \* the messages the event queue has accepted, in order
    ianswer,    \* the status the latest request was answered with
    nreq        \* requests received so far

engineVars == <<variant, teardown, nTasks, epc, task, output, store, result, calls,
                executing, seen, program>>

tokenVars == <<clock, private_key, app_token, installation_token, app_lock,
               installation_lock, pc, op, frame, ret, trail, ncalls, produced>>

stateVars == <<lastop, inserts, touched>>

clientVars == <<installation_id, cpc, cop, grants, requests, cresult, cresponse>>

taskVars == <<tkind, tpc, tstate, tbefore, tcalls, tret, suites, subs, finished>>

\* The variables of the parts that came last; every step of the earlier parts
\* leaves them alone.
ingressVars == <<github_webhook_secret, ipc, ireq, queue, ianswer, nreq>>

restVars == <<taskVars, ingressVars>>

nonEngineVars == <<stateVars, tokenVars, clientVars, restVars>>

nonTokenVars == <<engineVars, stateVars, clientVars, restVars>>

nonClientVars == <<engineVars, stateVars, restVars>>

vars == <<engineVars, stateVars, tokenVars, clientVars, restVars>>

None == "none"

\* Result<_, Error> of Automaton::execute: the product (chain), the State (list)
\* or the error; "unset" while execute() has not returned.
Result(k, v, st) == [kind |-> k, val |-> v, state |-> st]

----------------------------------------------------------------------------
(* Engine                                                                  *)

\* Main-loop calls kept in `calls` (the code's loop has no bound; of a longer
\* run the log keeps the latest calls).
MaxSteps == 3

\* Longest tasks() list explored.
MaxTasks == 2

TaskIds == {"t1", "t2"}

Outputs == {"o1", "o2"}

Errors == {"e1", "e2"}

Types == {"Message", "Flag"}

Values == {"Hello", "World"}

\* What one Task::execute call can come back with.  The chained form carries
\* the successor in Next and the product in Complete; the list form carries
\* nothing in either, and its task may have written one value to the State.
ChainOutcomes ==
    [kind : {"Next"}, val : TaskIds] \cup [kind : {"Complete"}, val : Outputs]
        \cup [kind : {"Err"}, val : Errors]

ListOutcomes ==
    [kind : {"Next", "Complete"}, val : {None}] \cup [kind : {"Err"}, val : Errors]

StoreWrites == {None} \cup (Types \X Values)

EmptyState == [t \in Types |-> None]

\* A State whose insert keeps the value it already holds.
InsertKeepsFirst(s, t, v) == IF s[t] = None THEN [s EXCEPT ![t] = v] ELSE s

\* A State whose insert drops what it holds of other types.
InsertClearsOthers(s, t, v) == [u \in Types |-> IF u = t THEN v ELSE None]

\* State::insert: the slot of the value's type is overwritten.
Insert(s, t, v) == [s EXCEPT ![t] = v]

ApplyWrite(s, w) == IF w = None THEN s ELSE Insert(s, w[1], w[2])

\* tests/hello-world.rs: `message.0.push_str(", World!")`
PushStr(a, b) == a \o b

\* tests/hello-world.rs, Hello::execute: insert the Message, signal Next.
Hello(st) ==
    [out |-> [kind |-> "Next", val |-> None], state |-> Insert(st, "Message", "Hello")]

\* tests/hello-world.rs, World::execute: get_mut the Message or fail, push_str.
World(st) ==
    IF st["Message"] = None
    THEN [out |-> [kind |-> "Err", val |-> "failed to get message from state"],
          state |-> st]
    ELSE [out |-> [kind |-> "Next", val |-> None],
          state |-> [st EXCEPT !["Message"] = PushStr(@, ", World!")]]

\* What executing task t of the list on State st can do: anything for an
\* arbitrary automaton, the test's two tasks for HelloWorld.
TaskRuns(prog, t, st) ==
    IF prog = "hello_world"
    THEN {IF t = 1 THEN Hello(st) ELSE World(st)}
    ELSE {[out |-> o, state |-> ApplyWrite(st, w)] : o \in ListOutcomes, w \in StoreWrites}

\* `task_init_fn(&state)`, `task.execute(&mut state)`: every task is handed
\* the one State of the run.
HandedFresh(st) == EmptyState

Handed(st) == st

\* The name under which a task shows in `executing`.
Label(t) == IF variant = "list" THEN ToString(t) ELSE t

Call(phase, t, o) == [phase |-> phase, task |-> t, kind |-> o.kind, val |-> o.val]

\* The log of Task::execute calls: the latest MaxSteps + 1 of them.
Log(cs, c) == IF Len(cs) <= MaxSteps THEN Append(cs, c) ELSE Append(Tail(cs), c)

MainCalls == SelectSeq(calls, LAMBDA c : c.phase = "main")

TeardownCalls == SelectSeq(calls, LAMBDA c : c.phase = "teardown")

\* `loop {`: the loop has no condition.
IterationBound(n) == n < MaxSteps

MayIterate(n) == TRUE

\* `task.execute().await`: execute() is suspended until the task's future
\* has resolved.
StartDetached(p) == p

AfterStart(p) == IF p = "loop" THEN "in_task" ELSE "in_teardown"

\* `task.execute().await?` inside the loop: where execute() is after an Err.
LoopErrorRunsTeardown(td) == "teardown"

AfterLoopError(td) == "returned"

\* `break` out of the loop, then `if let Some(..) = self.complete_task()`.
LoopCompleteContinues(td) == "loop"

LoopCompleteReturns(td) == "returned"

AfterLoopComplete(td) == IF td = None THEN "returned" ELSE "teardown"

\* The completion task is executed once, whatever transition it returns.
TeardownRepeatsOnNext(o) == IF o.kind = "Next" THEN "teardown" ELSE "returned"

AfterTeardown(o) == "returned"

\* `if let Transition::Complete(output) = .. { automaton_output = output; }`
LoopOutputKept(out, o) == out

\* A completion task whose transition always names what execute() returns.
TeardownValueTaken(out, o) == o.val

TeardownOutput(out, o) == IF o.kind = "Complete" THEN o.val ELSE out

\* `complete_task.execute().await?`: the completion task's error is the result.
TeardownErrorSwallowed(o, ok) == ok

TeardownResult(o, ok) == IF o.kind = "Err" THEN Result("Err", o.val, EmptyState) ELSE ok

\* The automata explored: an arbitrary one in either form, and HelloWorld of
\* tests/hello-world.rs (tasks() = [Hello::init, World::init], default
\* complete_task).
EngineInit ==
    /\ program \in {"any", "hello_world"}
    /\ variant \in (IF program = "any" THEN {"chain", "list"} ELSE {"list"})
    /\ teardown \in (IF program = "hello_world" THEN {"noop"}
                     ELSE IF variant = "chain" THEN {None, "custom"}
                     ELSE {"noop", "custom"})
    /\ nTasks \in (IF program = "hello_world" THEN {2}
                   ELSE IF variant = "chain" THEN {0} ELSE 0..MaxTasks)
    /\ epc = IF variant = "list" /\ nTasks = 0 THEN "teardown" ELSE "loop"
    /\ task \in (IF variant = "chain" THEN TaskIds ELSE {1})
    /\ output = None
    /\ store = EmptyState
    /\ seen = EmptyState
    /\ executing = <<>>
    /\ result = Result("unset", None, EmptyState)
    /\ calls = <<>>

\* `task.execute()` is called (list form: after `task_init_fn(&state)`), and
\* execute() awaits it.
StartTask ==
    /\ epc = "loop"
    /\ MayIterate(Len(MainCalls))
    /\ executing' = Append(executing, Label(task))
    /\ seen' = IF variant = "list" THEN Handed(store) ELSE seen
    /\ epc' = AfterStart(epc)
    /\ UNCHANGED <<program, variant, teardown, nTasks, task, output, store, result,
                   calls, nonEngineVars>>

\* `complete_task.execute()` is called, and execute() awaits it.
StartCompleteTask ==
    /\ epc = "teardown"
    /\ executing' = Append(executing, "complete_task")
    /\ seen' = IF variant = "list" THEN Handed(store) ELSE seen
    /\ epc' = AfterStart(epc)
    /\ UNCHANGED <<program, variant, teardown, nTasks, task, output, store, result,
                   calls, nonEngineVars>>

\* automatons/src/lib.rs: one turn of `loop { task = match task.execute().await? ..}`
ChainExecuteTask ==
    /\ variant = "chain"
    /\ epc = "in_task"
    /\ executing' = Tail(executing)
    /\ \E o \in ChainOutcomes :
        /\ calls' = Log(calls, Call("main", task, o))
        /\ CASE o.kind = "Err" ->
                  /\ epc' = AfterLoopError(teardown)
                  /\ result' = Result("Err", o.val, EmptyState)
                  /\ UNCHANGED <<task, output>>
             [] o.kind = "Next" ->
                  /\ task' = o.val
                  /\ epc' = "loop"
                  /\ UNCHANGED <<output, result>>
             [] o.kind = "Complete" ->
                  /\ output' = o.val
                  /\ epc' = AfterLoopComplete(teardown)
                  /\ result' = IF AfterLoopComplete(teardown) = "returned"
                               THEN Result("Ok", o.val, EmptyState) ELSE result
                  /\ UNCHANGED task
    /\ UNCHANGED <<program, variant, teardown, nTasks, store, seen, nonEngineVars>>

\* automatons/src/lib.rs: `if let Some(mut complete_task) = self.complete_task()`
ChainExecuteCompleteTask ==
    /\ variant = "chain"
    /\ epc = "in_teardown"
    /\ executing' = Tail(executing)
    /\ \E o \in ChainOutcomes :
        /\ calls' = Log(calls, Call("teardown", "complete_task", o))
        /\ output' = IF o.kind = "Err" THEN output ELSE TeardownOutput(output, o)
        /\ epc' = IF o.kind = "Err" THEN "returned" ELSE AfterTeardown(o)
        /\ result' = TeardownResult(o, Result("Ok", output', EmptyState))
    /\ UNCHANGED <<program, variant, teardown, nTasks, task, store, seen, nonEngineVars>>

\* automaton/src/lib.rs: one turn of `for task_init_fn in self.tasks().iter()`
ListExecuteTask ==
    /\ variant = "list"
    /\ epc = "in_task"
    /\ executing' = Tail(executing)
    /\ \E r \in TaskRuns(program, task, seen) :
        /\ calls' = Log(calls, Call("main", task, r.out))
        /\ store' = r.state
        /\ CASE r.out.kind = "Err" ->
                  /\ epc' = AfterLoopError(teardown)
                  /\ result' = Result("Err", r.out.val, EmptyState)
                  /\ UNCHANGED task
             [] r.out.kind = "Next" ->
                  /\ task' = task + 1
                  /\ epc' = IF task + 1 > nTasks THEN "teardown" ELSE "loop"
                  /\ UNCHANGED result
             [] r.out.kind = "Complete" ->
                  /\ epc' = AfterLoopComplete(teardown)
                  /\ UNCHANGED <<task, result>>
    /\ UNCHANGED <<program, variant, teardown, nTasks, output, seen, nonEngineVars>>

\* automaton/src/lib.rs: `complete_task.execute(&mut state).await?; Ok(state)`
ListExecuteCompleteTask ==
    /\ variant = "list"
    /\ epc = "in_teardown"
    /\ executing' = Tail(executing)
    /\ \E o \in ListOutcomes, w \in StoreWrites :
        /\ teardown = "noop" => (o.kind = "Complete" /\ w = None)
        /\ calls' = Log(calls, Call("teardown", "complete_task", o))
        /\ store' = ApplyWrite(seen, w)
        /\ epc' = IF o.kind = "Err" THEN "returned" ELSE AfterTeardown(o)
        /\ result' = TeardownResult(o, Result("Ok", None, store'))
    /\ UNCHANGED <<program, variant, teardown, nTasks, task, output, seen, nonEngineVars>>

----------------------------------------------------------------------------
(* State                                                                  *)

\* State::new(): nothing stored, no operation made yet.
NoOp == [op |-> "new", type |-> None, arg |-> None, ret |-> None]

\* State::insert returns what HashMap::insert displaced, downcast to T.
InsertReturn(s, t) == s[t]

\* State::get: `self.store.get(&TypeId::of::<T>()).and_then(.. downcast_ref())`
GetNothing(s, t) == None

GetAnyType(s, t) ==
    IF s[t] # None THEN s[t]
    ELSE IF \E u \in Types : s[u] # None THEN s[CHOOSE u \in Types : s[u] # None]
    ELSE None

Get(s, t) == s[t]

\* State::get_mut: the same lookup, handing out `&mut T`.
GetMut(s, t) == s[t]

\* What the holder of the `&mut T` does with it: nothing (None), or put w there.
WriteThrough(s, t, w) == IF GetMut(s, t) = None \/ w = None THEN s ELSE [s EXCEPT ![t] = w]

StateInit ==
    /\ lastop = NoOp
    /\ inserts = [t \in Types |-> None]
    /\ touched = {}

\* state.insert(v) for a value v of type t
StateInsert ==
    \E t \in Types, v \in Values :
        /\ lastop' = [op |-> "insert", type |-> t, arg |-> v, ret |-> InsertReturn(store, t)]
        /\ store' = Insert(store, t, v)
        /\ inserts' = [inserts EXCEPT ![t] = v]
        /\ touched' = touched \ {t}
        /\ UNCHANGED <<variant, teardown, nTasks, epc, task, output, result, calls,
                       executing, seen, program, tokenVars, clientVars, restVars>>

\* state.get::<T>() for type t
StateGet ==
    \E t \in Types :
        /\ lastop' = [op |-> "get", type |-> t, arg |-> None, ret |-> Get(store, t)]
        /\ UNCHANGED <<inserts, touched, engineVars, tokenVars, clientVars, restVars>>

\* state.get_mut::<T>() for type t, and the use the caller makes of the reference
StateGetMut ==
    \E t \in Types, w \in Values \cup {None} :
        /\ lastop' = [op |-> "get_mut", type |-> t, arg |-> w, ret |-> GetMut(store, t)]
        /\ store' = WriteThrough(store, t, w)
        /\ touched' = IF store' # store THEN touched \cup {t} ELSE touched
        /\ UNCHANGED <<inserts, variant, teardown, nTasks, epc, task, output, result,
                       calls, executing, seen, program, tokenVars, clientVars, restVars>>

----------------------------------------------------------------------------
(* TokenFactory                                                            *)

Callers == {"c1", "c2"}

InstallationIds == {1, 2}

\* Credentials the token-exchange endpoint may answer with.
ResponseTokens == {"ghs_a", "ghs_b"}

\* Outermost calls explored, all callers together.
MaxCalls == 2

\* Last clock reading explored.
MaxClock == 1

\* Clock readings per second: DateTime<Utc> is finer than the JWT's seconds.
TicksPerSecond == 1

\* Duration::seconds(60), Duration::minutes(10), Duration::days(1), in seconds.
IatSkewSeconds == 60

ExpSeconds == 600

PlaceholderAgeSeconds == 86400

\* AppId of the factory.
app_id == 1

\* DateTime::timestamp(): whole seconds, rounded down.
Timestamp(t) == t \div TicksPerSecond

Str(s) == <<"str", s>>

Token(cred, expires_at) == [token |-> cred, expires_at |-> expires_at]

NoToken == Token(<<"none">>, 0)

\* Result<Token<_>, Error> of app() / installation(); "unset" before the return.
Returned(k, tok, e, cached) == [kind |-> k, tok |-> tok, err |-> e, cached |-> cached]

NotReturned == Returned("unset", NoToken, None, FALSE)

NoRequest == [id |-> 0, bearer |-> <<"none">>]

\* installation_id and `now` of installation(), `now` and `token` of app(),
\* `app_token` and `token` of installation().
NoFrame == [installation_id |-> 0, now_inst |-> 0, now_app |-> 0, token |-> NoToken,
            app_token |-> NoToken, inst_token |-> NoToken]

NoTrail == [seen_app |-> NoToken, seen_inst |-> NoToken, committed |-> FALSE,
            posted |-> NoRequest, response |-> None, status |-> 0]

\* `expires_at > now`
IsExpiredAlways(tok, now) == FALSE

IsValidInclusive(tok, now) == tok.expires_at >= now

IsValid(tok, now) == tok.expires_at > now

\* generate_jwt: the claims, signed with RS256 (a deterministic signature, so
\* the JWT string is a function of the claims and the key).
ClaimsNoSkew(now, id) ==
    <<"jwt", Timestamp(now), ToString(id), Timestamp(now + ExpSeconds * TicksPerSecond)>>

Claims(now, id) ==
    <<"jwt", Timestamp(now - IatSkewSeconds * TicksPerSecond), ToString(id),
      Timestamp(now + ExpSeconds * TicksPerSecond)>>

\* A generate_jwt that signs with whatever the key holds.
GenerateJwtUnchecked(now, id, key) == [kind |-> "Ok", err |-> None, jwt |-> Claims(now, id)]

GenerateJwt(now, id, key) ==
    IF key = "malformed"
    THEN [kind |-> "Err", err |-> "Configuration", jwt |-> <<"none">>]
    ELSE [kind |-> "Ok", err |-> None, jwt |-> Claims(now, id)]

\* The end of the block that read the slot drops the guard.
ReadKeepsGuard(c) == c

ReadDropsGuard(c) == None

\* `*app_token = token.clone()` / `*installation_token = token.clone()`
CommitTorn(old, new) == Token(new.token, old.expires_at)

CommitFirstWins(old, new) == IF old.expires_at >= new.expires_at THEN old ELSE new

Commit(old, new) == new

\* `Ok(token)` after the commit: the token the call produced itself.
ReturnProduced(slot, tok) == tok

\* TokenFactory::new: `let expiration = Utc::now().sub(Duration::days(1));`
ExpirationAhead(now) == now + PlaceholderAgeSeconds * TicksPerSecond

Expiration(now) == now - PlaceholderAgeSeconds * TicksPerSecond

\* The placeholders TokenFactory::new puts into the two slots.
Placeholders == {Str("app_token"), Str("installation_token")}

\* tests::factory(app_token, installation_token); TokenFactory::new is
\* factory(None, None).
TokenInit ==
    /\ clock = 0
    /\ private_key \in {"valid", "malformed"}
    /\ app_token \in {Token(Str("app_token"), Expiration(0)),
                      Token(Str("app"), ExpSeconds * TicksPerSecond)}
    /\ installation_token \in
         {Token(Str("installation_token"), Expiration(0)),
          Token(Str("installation"), ExpSeconds * TicksPerSecond)}
    /\ app_lock = None
    /\ installation_lock = None
    /\ pc = [c \in Callers |-> "idle"]
    /\ op = [c \in Callers |-> None]
    /\ frame = [c \in Callers |-> NoFrame]
    /\ ret = [c \in Callers |-> NotReturned]
    /\ trail = [c \in Callers |-> NoTrail]
    /\ ncalls = 0
    /\ produced = {app_token, installation_token}

\* Utc::now(): a reading not earlier than the last one.  `clock` is the
\* latest reading; time that passes between two readings shows in the next.
Readings == clock..MaxClock

\* Callers are interchangeable: the one that makes the first call is c1.
MayStart(c) == pc[c] = "idle" /\ ncalls < MaxCalls /\ (ncalls = 0 => c = "c1")

\* A caller enters app(): `let now = Utc::now();`
AppStart(c) ==
    /\ MayStart(c)
    /\ ncalls' = ncalls + 1
    /\ op' = [op EXCEPT ![c] = "app"]
    /\ pc' = [pc EXCEPT ![c] = "app_lock_read"]
    /\ \E t \in Readings :
        /\ clock' = t
        /\ frame' = [frame EXCEPT ![c] = [NoFrame EXCEPT !.now_app = t]]
    /\ trail' = [trail EXCEPT ![c] = NoTrail]
    /\ UNCHANGED <<private_key, app_token, installation_token, app_lock,
                   installation_lock, ret, produced, nonTokenVars>>

\* installation(id) is entered: `let now = Utc::now();`
InstallationEnter(c, id) ==
    /\ MayStart(c)
    /\ ncalls' = ncalls + 1
    /\ op' = [op EXCEPT ![c] = "installation"]
    /\ pc' = [pc EXCEPT ![c] = "inst_lock_read"]
    /\ \E t \in Readings :
        /\ clock' = t
        /\ frame' = [frame EXCEPT ![c] =
                       [NoFrame EXCEPT !.now_inst = t, !.installation_id = id]]
    /\ trail' = [trail EXCEPT ![c] = NoTrail]
    /\ UNCHANGED <<private_key, app_token, installation_token, app_lock,
                   installation_lock, ret, produced>>

\* A caller enters installation(id)
InstallationStart(c) ==
    /\ \E id \in InstallationIds : InstallationEnter(c, id)
    /\ UNCHANGED nonTokenVars

\* The outermost call returns r: its frame is gone.
Returns(c, r) ==
    /\ ret' = [ret EXCEPT ![c] = r]
    /\ pc' = [pc EXCEPT ![c] = "idle"]
    /\ frame' = [frame EXCEPT ![c] = NoFrame]

\* What the call has observed and done is kept while the call lasts; the
\* status of the response it got is kept until the caller's next call.
Trail(c, t) ==
    [trail EXCEPT ![c] = IF pc'[c] = "idle" THEN [NoTrail EXCEPT !.status = t.status] ELSE t]

\* app() hands its result to its caller: the outermost caller, or
\* installation()'s `let app_token = self.app()?;`
AppReturns(c, r, tok) ==
    IF op[c] = "app"
    THEN Returns(c, r)
    ELSE IF r.kind = "Ok"
    THEN /\ frame' = [frame EXCEPT ![c].app_token = r.tok, ![c].token = tok]
         /\ pc' = [pc EXCEPT ![c] = "inst_send"]
         /\ UNCHANGED ret
    ELSE Returns(c, Returned("Err", NoToken, r.err, FALSE))

\* app(): `let app_token = self.app_token.lock();` of the first block
AppLockRead(c) ==
    /\ pc[c] = "app_lock_read"
    /\ app_lock = None
    /\ app_lock' = c
    /\ pc' = [pc EXCEPT ![c] = "app_reading"]
    /\ UNCHANGED <<clock, private_key, app_token, installation_token,
                   installation_lock, op, frame, ret, trail, ncalls, produced,
                   nonTokenVars>>

\* app(): `if app_token.expires_at > now { return Ok(app_token.clone()); }`
AppRead(c) ==
    /\ pc[c] = "app_reading"
    /\ app_lock = c
    /\ app_lock' = ReadDropsGuard(c)
    /\ IF IsValid(app_token, frame[c].now_app)
       THEN AppReturns(c, Returned("Ok", app_token, None, TRUE), NoToken)
       ELSE /\ pc' = [pc EXCEPT ![c] = "app_signing"]
            /\ UNCHANGED <<ret, frame>>
    /\ trail' = Trail(c, [trail[c] EXCEPT !.seen_app = app_token])
    /\ UNCHANGED <<clock, private_key, app_token, installation_token,
                   installation_lock, op, ncalls, produced, nonTokenVars>>

\* app(): `let jwt = self.generate_jwt()?; let token = Token { .. expires_at: now };`
AppSign(c) ==
    /\ pc[c] = "app_signing"
    /\ \E t \in Readings :
        /\ clock' = t
        /\ LET jwt == GenerateJwt(t, app_id, private_key)
               tok == Token(jwt.jwt, frame[c].now_app)
           IN IF jwt.kind = "Err"
              THEN /\ AppReturns(c, Returned("Err", NoToken, jwt.err, FALSE), NoToken)
                   /\ UNCHANGED produced
              ELSE /\ frame' = [frame EXCEPT ![c].token = tok]
                   /\ produced' = produced \cup {tok}
                   /\ pc' = [pc EXCEPT ![c] = "app_lock_write"]
                   /\ UNCHANGED ret
    /\ trail' = Trail(c, trail[c])
    /\ UNCHANGED <<private_key, app_token, installation_token, app_lock,
                   installation_lock, op, ncalls, nonTokenVars>>

\* app(): `let mut app_token = self.app_token.lock();` of the second block
AppLockWrite(c) ==
    /\ pc[c] = "app_lock_write"
    /\ app_lock = None
    /\ app_lock' = c
    /\ pc' = [pc EXCEPT ![c] = "app_writing"]
    /\ UNCHANGED <<clock, private_key, app_token, installation_token,
                   installation_lock, op, frame, ret, trail, ncalls, produced,
                   nonTokenVars>>

\* app(): `*app_token = token.clone();` then `Ok(token)`
AppWrite(c) ==
    /\ pc[c] = "app_writing"
    /\ app_lock = c
    /\ app_token' = Commit(app_token, frame[c].token)
    /\ app_lock' = None
    /\ AppReturns(c, Returned("Ok", ReturnProduced(app_token', frame[c].token), None,
                              FALSE), frame[c].token)
    /\ trail' = Trail(c, [trail[c] EXCEPT !.committed = TRUE])
    /\ UNCHANGED <<clock, private_key, installation_token, installation_lock, op, ncalls, produced, nonTokenVars>>

\* installation(): `let installation_token = self.installation_token.lock();`
InstallationLockRead(c) ==
    /\ pc[c] = "inst_lock_read"
    /\ installation_lock = None
    /\ installation_lock' = c
    /\ pc' = [pc EXCEPT ![c] = "inst_reading"]
    /\ UNCHANGED <<clock, private_key, app_token, installation_token, app_lock, op,
                   frame, ret, trail, ncalls, produced, nonTokenVars>>

\* installation(): `if installation_token.expires_at > now { return Ok(..clone()); }`
InstallationRead(c) ==
    /\ pc[c] = "inst_reading"
    /\ installation_lock = c
    /\ installation_lock' = ReadDropsGuard(c)
    /\ IF IsValid(installation_token, frame[c].now_inst)
       THEN Returns(c, Returned("Ok", installation_token, None, TRUE))
       ELSE /\ pc' = [pc EXCEPT ![c] = "inst_call_app"]
            /\ UNCHANGED <<ret, frame>>
    /\ trail' = Trail(c, [trail[c] EXCEPT !.seen_inst = installation_token])
    /\ UNCHANGED <<clock, private_key, app_token, installation_token, app_lock, op, ncalls, produced, nonTokenVars>>

\* installation(): `let app_token = self.app()?;` enters app(), which reads its own now
InstallationCallApp(c) ==
    /\ pc[c] = "inst_call_app"
    /\ \E t \in Readings :
        /\ clock' = t
        /\ frame' = [frame EXCEPT ![c].now_app = t]
    /\ pc' = [pc EXCEPT ![c] = "app_lock_read"]
    /\ UNCHANGED <<private_key, app_token, installation_token, app_lock,
                   installation_lock, op, ret, trail, ncalls, produced,
                   nonTokenVars>>

\* The Authorization header of the exchange request.
BearerOfSlot(tok, slot) == slot.token

BearerOf(tok, slot) == tok.token

\* installation(): `Client::new().post(url).header("Authorization", ..).send()`
InstallationSend(c) ==
    /\ pc[c] = "inst_send"
    /\ trail' = [trail EXCEPT ![c].posted =
                     [id |-> frame[c].installation_id,
                      bearer |-> BearerOf(frame[c].app_token, app_token)]]
    /\ pc' = [pc EXCEPT ![c] = "inst_waiting"]
    /\ UNCHANGED <<clock, private_key, app_token, installation_token, app_lock,
                   installation_lock, op, frame, ret, ncalls, produced,
                   nonTokenVars>>

\* What `.send().await?` and `response.json().await` can come back with: a
\* transport failure, an answer whose body holds a `token` string (a success),
\* or one whose body does not (the installation was not found).
Responses ==
    {[kind |-> "transport", status |-> 0, token |-> None]}
        \cup [kind : {"no_token"}, status : {404}, token : {None}]
        \cup [kind : {"token"}, status : {201}, token : ResponseTokens]

\* The installation an access token of the endpoint belongs to: the endpoint
\* creates the token for the installation named in the url of the request.
IssuedFor(token) == IF token = "ghs_a" THEN 1 ELSE 2

\* An installation() that puts the app_token slot back when the exchange fails.
RollsBack(slot, before) == before

\* The `?` on the exchange request and on the parsing of its response returns
\* without touching a slot.
AfterFailedExchange(slot, before) == slot

\* `token: SecretString::new(access_token_response.token)`
KeepsCachedCredential(r, cached) == cached.token

ResponseCredential(r, cached) == Str(r.token)

\* installation(): the response arrives and is parsed, whatever its status;
\* `let token = Token { .. expires_at: now };`
InstallationResponse(c) ==
    /\ pc[c] = "inst_waiting"
    /\ \E r \in Responses :
        /\ r.kind = "token" => IssuedFor(r.token) = trail[c].posted.id
        /\ IF r.kind = "token"
           THEN /\ frame' = [frame EXCEPT ![c].inst_token =
                                Token(ResponseCredential(r, trail[c].seen_inst),
                                      frame[c].now_inst)]
                /\ produced' = produced \cup {frame'[c].inst_token}
                /\ pc' = [pc EXCEPT ![c] = "inst_lock_write"]
                /\ UNCHANGED <<ret, app_token>>
           ELSE /\ Returns(c, Returned("Err", NoToken,
                                       IF r.kind = "transport" THEN "Request"
                                                               ELSE "Serialization", FALSE))
                /\ app_token' = AfterFailedExchange(app_token, trail[c].seen_app)
                /\ UNCHANGED produced
        /\ trail' = Trail(c, [trail[c] EXCEPT !.response = r.token, !.status = r.status])
    /\ UNCHANGED <<clock, private_key, installation_token, app_lock,
                   installation_lock, op, ncalls, nonTokenVars>>

\* installation(): `let mut installation_token = self.installation_token.lock();`
InstallationLockWrite(c) ==
    /\ pc[c] = "inst_lock_write"
    /\ installation_lock = None
    /\ installation_lock' = c
    /\ pc' = [pc EXCEPT ![c] = "inst_writing"]
    /\ UNCHANGED <<clock, private_key, app_token, installation_token, app_lock, op,
                   frame, ret, trail, ncalls, produced, nonTokenVars>>

\* installation(): `*installation_token = token.clone();` then `Ok(token)`
InstallationWrite(c) ==
    /\ pc[c] = "inst_writing"
    /\ installation_lock = c
    /\ installation_token' = Commit(installation_token, frame[c].inst_token)
    /\ installation_lock' = None
    /\ Returns(c, Returned("Ok", ReturnProduced(installation_token', frame[c].inst_token),
                           None, FALSE))
    /\ trail' = Trail(c, trail[c])
    /\ UNCHANGED <<clock, private_key, app_token, app_lock, op, ncalls, produced,
                   nonTokenVars>>

----------------------------------------------------------------------------
(* GitHubClient                                                            *)

\* The task that owns the GitHubClient is the caller c1 of its TokenFactory.
Client == "c1"

Methods == {"get", "post", "patch", "paginate"}

NoOperation == [method |-> None, page |-> 0, collection |-> <<>>]

ClientReturned(k, e, data) == [kind |-> k, err |-> e, data |-> data]

ClientNotReturned == ClientReturned("unset", None, <<>>)

\* Pages a listing is followed over (a listing has no bound of its own).
MaxPages == 3

\* The `link` header of a response: absent, not valid text, or a list of
\* relations `<url>; rel="..."`; target 0 is a relation without `<url>`.
Relation(rel, target) == [rel |-> rel, target |-> target]

LinkHeaders ==
    {[kind |-> "absent", relations |-> <<>>],
     [kind |-> "not_text", relations |-> <<>>],
     [kind |-> "text", relations |-> <<Relation("prev", 1)>>],
     [kind |-> "text", relations |-> <<Relation("prev", 1), Relation("next", 2)>>],
     [kind |-> "text", relations |-> <<Relation("next", MaxPages), Relation("last", MaxPages)>>],
     [kind |-> "text", relations |-> <<Relation("next", 0)>>]}

\* Response bodies: JSON of the expected shape, bytes that are no JSON, JSON
\* without the pagination key, JSON whose entities have another shape.
ResponseBodies == {"ok", "bad", "no_key", "bad_entities"}

\* What `.send().await?` and the reading of the response can come back with: a
\* transport failure, or a response with a status, a link header and a body
\* (every status without a link header, every link header with status 200).
ClientResponses ==
    {[kind |-> "transport", status |-> 0,
      link |-> [kind |-> "absent", relations |-> <<>>], body |-> None]}
        \cup [kind : {"response"}, status : {200, 404, 500},
              link : {[kind |-> "absent", relations |-> <<>>]}, body : ResponseBodies]
        \cup [kind : {"response"}, status : {200}, link : LinkHeaders,
              body : ResponseBodies]

NoResponse ==
    [kind |-> "none", status |-> 0, link |-> [kind |-> "absent", relations |-> <<>>],
     body |-> None]

\* `relations.iter().find(|link| link.contains(r#"rel="next"#))`: the position
\* of the first relation that is a next link, 0 when there is none
FindNext(relations) ==
    IF \E i \in 1..Len(relations) : relations[i].rel = "next"
    THEN CHOOSE i \in 1..Len(relations) :
            /\ relations[i].rel = "next"
            /\ \A j \in 1..(i - 1) : relations[j].rel # "next"
    ELSE 0

\* get_next_url: Ok(None), Ok(Some(url)) or an error
GetNextUrl(header) ==
    IF header.kind = "absent" THEN [kind |-> "Ok", url |-> 0]
    ELSE IF header.kind = "not_text" THEN [kind |-> "Err", url |-> 0]
    ELSE IF FindNext(header.relations) = 0 THEN [kind |-> "Ok", url |-> 0]
    ELSE IF header.relations[FindNext(header.relations)].target = 0
    THEN [kind |-> "Err", url |-> 0]
    ELSE [kind |-> "Ok", url |-> header.relations[FindNext(header.relations)].target]

\* The entities the page at a url holds under the pagination key.
EntitiesOf(page) == <<2 * page - 1, 2 * page>>

\* A loop that puts the entities of a page in front of the earlier ones.
PrependEntities(collection, entities) == entities \o collection

\* `collection.append(&mut entities)`
AppendEntities(collection, entities) == collection \o entities

\* `.header("Authorization", format!("Bearer {}", token.get()))`
StaleBearer(token, earlier) ==
    <<"Bearer", IF earlier = <<>> THEN token.token ELSE earlier[1].tok.token>>

ClientBearer(token, earlier) == <<"Bearer", token.token>>

ClientInit ==
    /\ installation_id \in InstallationIds
    /\ cpc = "idle"
    /\ cop = NoOperation
    /\ grants = <<>>
    /\ requests = <<>>
    /\ cresult = ClientNotReturned
    /\ cresponse = NoResponse

\* get / post / patch / paginate is called: the url is built
ClientCall ==
    /\ cpc = "idle"
    /\ ncalls < MaxCalls
    /\ \E m \in Methods : cop' = [method |-> m, page |-> 1, collection |-> <<>>]
    /\ cpc' = "client"
    /\ cresult' = ClientNotReturned
    /\ cresponse' = NoResponse
    /\ UNCHANGED <<installation_id, grants, requests, nonClientVars, tokenVars>>

\* client(): `self.token_factory.installation(self.installation_id)` is called
ClientAuthorize ==
    /\ cpc = "client"
    /\ InstallationEnter(Client, installation_id)
    /\ cpc' = "authorizing"
    /\ UNCHANGED <<installation_id, cop, grants, requests, cresult, cresponse,
                   nonClientVars>>

\* client(): installation() has returned; `.await.context(..)?`, then the
\* request is built with the token and sent
ClientBuild ==
    /\ cpc = "authorizing"
    /\ pc[Client] = "idle"
    /\ grants' = Append(grants, ret[Client])
    /\ IF ret[Client].kind = "Ok"
       THEN /\ requests' = Append(requests,
                                  [method |-> cop.method, page |-> cop.page,
                                   bearer |-> ClientBearer(ret[Client].tok, grants),
                                   call |-> Len(grants')])
            /\ cpc' = "sending"
            /\ UNCHANGED <<cop, cresult>>
       ELSE /\ cresult' = ClientReturned("Err", "Unknown", <<>>)
            /\ cpc' = "idle"
            /\ cop' = NoOperation
            /\ UNCHANGED requests
    /\ UNCHANGED <<installation_id, cresponse, nonClientVars, tokenVars>>

\* A send_request that reads the body before it looks at the status.
DeserializesFirst(r) ==
    IF r.kind = "transport" THEN ClientReturned("Err", "Request", <<>>)
    ELSE IF r.body # "ok" THEN ClientReturned("Err", "Request", <<>>)
    ELSE IF r.status \notin 200..299
    THEN ClientReturned("Err", IF r.status = 404 THEN "NotFound" ELSE "Unknown", <<>>)
    ELSE ClientReturned("Ok", None, <<cop.page>>)

\* send_request: `let response = client.send().await?;`, the status check and
\* `response.json::<T>().await?`
SendRequestResult(r) ==
    IF r.kind = "transport" THEN ClientReturned("Err", "Request", <<>>)
    ELSE IF r.status \notin 200..299
    THEN ClientReturned("Err", IF r.status = 404 THEN "NotFound" ELSE "Unknown", <<>>)
    ELSE IF r.body # "ok" THEN ClientReturned("Err", "Request", <<>>)
    ELSE ClientReturned("Ok", None, <<cop.page>>)

\* paginate: one turn of the loop after `.send().await?`: the link header,
\* the body, the key, the entities
PageResult(r) ==
    IF r.kind = "transport" THEN ClientReturned("Err", "Request", <<>>)
    ELSE IF GetNextUrl(r.link).kind = "Err" THEN ClientReturned("Err", "Unknown", <<>>)
    ELSE IF r.body = "bad" THEN ClientReturned("Err", "Request", <<>>)
    ELSE IF r.body \in {"no_key", "bad_entities"}
    THEN ClientReturned("Err", "Unknown", <<>>)
    ELSE ClientReturned("Ok", None, AppendEntities(cop.collection, EntitiesOf(cop.page)))

\* paginate: `while next_url.is_some()` goes round again
NextPage(r) ==
    /\ cop.method = "paginate"
    /\ PageResult(r).kind = "Ok"
    /\ GetNextUrl(r.link).url # 0

\* The response to the request in flight arrives
ClientResponse ==
    /\ cpc = "sending"
    /\ \E r \in ClientResponses :
        /\ cresponse' = r
        /\ NextPage(r) => ncalls < MaxCalls
        /\ IF NextPage(r)
           THEN /\ cop' = [cop EXCEPT !.page = GetNextUrl(r.link).url,
                                      !.collection = PageResult(r).data]
                /\ cpc' = "client"
                /\ UNCHANGED cresult
           ELSE /\ cresult' = IF cop.method = "paginate" THEN PageResult(r)
                                                         ELSE SendRequestResult(r)
                /\ cpc' = "idle"
                /\ cop' = NoOperation
    /\ UNCHANGED <<installation_id, grants, requests, nonClientVars, tokenVars>>

\* The `?` that turns a ClientError into the Error of a task.
ErrorFromClientError(e) == e

\* GetFile::execute, as far as `self.github_client.get(&url).await?`
GetFileExecute(got) ==
    IF got.kind = "Err" THEN [kind |-> "Err", err |-> ErrorFromClientError(got.err)]
    ELSE [kind |-> "Ok", err |-> None]

\* A step of the installation() call the client is waiting for
ClientFactoryStep ==
    \/ AppLockRead(Client) \/ AppRead(Client) \/ AppSign(Client)
    \/ AppLockWrite(Client) \/ AppWrite(Client)
    \/ InstallationLockRead(Client) \/ InstallationRead(Client)
    \/ InstallationCallApp(Client) \/ InstallationSend(Client)
    \/ InstallationResponse(Client)
    \/ InstallationLockWrite(Client) \/ InstallationWrite(Client)

----------------------------------------------------------------------------
(* Per-endpoint tasks                                                      *)

\* ListCheckRunsForGitSha: check suites of one commit (the listing has no
\* bound of its own).
MaxSuites == 2

TaskKinds ==
    {"CreateCheckRun", "UpdateCheckRun", "ListCheckSuites", "ListCheckRunsForCheckSuite",
     "ListCheckRunsForGitSha"}

TaskTypes ==
    {"GitHubClient", "Login", "RepositoryName", "CreateCheckRunInput",
     "UpdateCheckRunInput", "GitSha", "CheckSuiteId", "CheckRun", "VecCheckSuite",
     "VecCheckRun"}

\* The task-specific input each task reads from the State.
InputType(k) ==
    CASE k = "CreateCheckRun" -> "CreateCheckRunInput"
      [] k = "UpdateCheckRun" -> "UpdateCheckRunInput"
      [] k = "ListCheckSuites" -> "GitSha"
      [] k = "ListCheckRunsForCheckSuite" -> "CheckSuiteId"
      [] k = "ListCheckRunsForGitSha" -> "GitSha"

\* The type of the value each task inserts.
ResultType(k) ==
    CASE k = "CreateCheckRun" -> "CheckRun"
      [] k = "UpdateCheckRun" -> "CheckRun"
      [] k = "ListCheckSuites" -> "VecCheckSuite"
      [] k = "ListCheckRunsForCheckSuite" -> "VecCheckRun"
      [] k = "ListCheckRunsForGitSha" -> "VecCheckRun"

\* The GitHubClient operation each task starts first.
ClientMethod(k) ==
    CASE k = "CreateCheckRun" -> "post"
      [] k = "UpdateCheckRun" -> "patch"
      [] OTHER -> "paginate"

\* Option<&T> of State::get on this State: no value, or the value.
Absent == [present |-> FALSE, data |-> <<>>]

Present(d) == [present |-> TRUE, data |-> d]

\* A task that does not look for its own input before it sends.
RequiredWithoutInput(k) == <<"GitHubClient", "Login", "RepositoryName">>

\* from_state and the task's own `state.get::<Input>()`, in the order read.
Required(k) == <<"GitHubClient", "Login", "RepositoryName", InputType(k)>>

Missing(k, s) == {i \in 1..Len(Required(k)) : ~Get(s, Required(k)[i]).present}

\* Result<Transition, Error> of Task::execute; every failure reaches the caller
\* through anyhow's context, as Error::Unknown.
TaskReturned(k, e) == [kind |-> k, err |-> e]

TaskNotReturned == TaskReturned("unset", None)

ClientCallOf(m, subject) == [method |-> m, subject |-> subject]

\* The injective sequences over S of length at most n.
RECURSIVE Listings(_, _)
Listings(S, n) ==
    IF n = 0 THEN {<<>>}
    ELSE LET shorter == Listings(S, n - 1)
         IN shorter \cup {Append(l, x) : l \in shorter, x \in S}

SuiteListings ==
    {l \in Listings(1..MaxSuites, MaxSuites) :
        \A i, j \in 1..Len(l) : l[i] = l[j] => i = j}

\* The check runs a suite can hold.
RunsOf(suite) == {<<>>, <<10 * suite + 1>>, <<10 * suite + 1, 10 * suite + 2>>}

\* What a GitHubClient operation gives back to the task.
ClientErrors == {"NotFound", "Unknown", "Request"}

RECURSIVE Flatten(_)
Flatten(ls) == IF ls = <<>> THEN <<>> ELSE Head(ls) \o Flatten(Tail(ls))

\* A join that hands the results over in the order they arrived.
JoinInCompletionOrder(results, order) ==
    Flatten([j \in 1..Len(order) |-> results[order[j]].data])

\* try_join_all(..).await, then `into_iter().flatten().collect()`
JoinAll(results, order) == Flatten([i \in 1..Len(results) |-> results[i].data])

\* A task that takes its old result out of the State when its request fails.
FailureClearsResult(s, t) == [s EXCEPT ![t] = Absent]

\* `task.execute().await?`: the error leaves execute before `state.insert`.
OnFailure(s, t) == s

TaskInit ==
    /\ tkind \in TaskKinds
    /\ \E have \in SUBSET {"GitHubClient", "Login", "RepositoryName", "Input", "Result"} :
         tstate = [t \in TaskTypes |->
                     IF \/ t \in have
                        \/ (t = InputType(tkind) /\ "Input" \in have)
                        \/ (t = ResultType(tkind) /\ "Result" \in have)
                     THEN Present(<<0>>) ELSE Absent]
    /\ tbefore = tstate
    /\ tpc = "ready"
    /\ tcalls = <<>>
    /\ tret = TaskNotReturned
    /\ suites = <<>>
    /\ subs = <<>>
    /\ finished = <<>>

TaskFails ==
    /\ tret' = TaskReturned("Err", "Unknown")
    /\ tpc' = "returned"
    /\ tstate' = OnFailure(tstate, ResultType(tkind))

TaskInserts(data) ==
    /\ tstate' = Insert(tstate, ResultType(tkind), Present(data))
    /\ tret' = TaskReturned("Next", None)
    /\ tpc' = "returned"

\* execute(): TaskImpl::from_state, the task's own input, and the call of the
\* GitHubClient operation
TaskExecute ==
    /\ tpc = "ready"
    /\ IF Missing(tkind, tstate) # {}
       THEN /\ tret' = TaskReturned("Err", "Unknown")
            /\ tpc' = "returned"
            /\ UNCHANGED <<tstate, tcalls>>
       ELSE /\ tcalls' = Append(tcalls, ClientCallOf(ClientMethod(tkind), 0))
            /\ tpc' = IF tkind = "ListCheckRunsForGitSha" THEN "listing" ELSE "requesting"
            /\ UNCHANGED <<tstate, tret>>
    /\ UNCHANGED <<tkind, tbefore, suites, subs, finished, engineVars, stateVars,
                   tokenVars, clientVars, ingressVars>>

\* execute(): the GitHubClient operation returns; `state.insert(..)`,
\* `Ok(Transition::Next)`
TaskResponse ==
    /\ tpc = "requesting"
    /\ \/ \E e \in ClientErrors : TaskFails
       \/ \E data \in (IF ClientMethod(tkind) = "paginate" THEN RunsOf(1) ELSE {<<1>>}) :
             TaskInserts(data)
    /\ UNCHANGED <<tkind, tbefore, tcalls, suites, subs, finished, engineVars,
                   stateVars, tokenVars, clientVars, ingressVars>>

\* ListCheckRunsForGitSha: list_check_suites returns; try_join_all starts one
\* list_check_runs_for_check_suite per suite
TaskSuitesListed ==
    /\ tpc = "listing"
    /\ \/ /\ \E e \in ClientErrors : TaskFails
          /\ UNCHANGED <<suites, subs, tcalls>>
       \/ \E l \in SuiteListings :
            /\ suites' = l
            /\ IF l = <<>>
               THEN /\ TaskInserts(JoinAll(<<>>, <<>>))
                    /\ UNCHANGED <<subs, tcalls>>
               ELSE /\ subs' = [i \in 1..Len(l) |-> Absent]
                    /\ tcalls' = tcalls \o [i \in 1..Len(l) |->
                                                ClientCallOf("paginate", l[i])]
                    /\ tpc' = "joining"
                    /\ UNCHANGED <<tstate, tret>>
    /\ UNCHANGED <<tkind, tbefore, finished, engineVars, stateVars, tokenVars,
                   clientVars, ingressVars>>

\* ListCheckRunsForGitSha: one of the sub-requests in flight completes
TaskSubResponse ==
    /\ tpc = "joining"
    /\ \E i \in 1..Len(subs) :
        /\ ~subs[i].present
        /\ \/ /\ \E e \in ClientErrors : TaskFails
              /\ UNCHANGED <<subs, finished>>
           \/ \E runs \in RunsOf(suites[i]) :
                /\ subs' = [subs EXCEPT ![i] = Present(runs)]
                /\ finished' = Append(finished, i)
                /\ IF \A j \in 1..Len(subs') : subs'[j].present
                   THEN TaskInserts(JoinAll(subs', finished'))
                   ELSE UNCHANGED <<tstate, tret, tpc>>
    /\ UNCHANGED <<tkind, tbefore, tcalls, suites, engineVars, stateVars, tokenVars,
                   clientVars, ingressVars>>

----------------------------------------------------------------------------
(* Webhook handler                                                         *)

\* Requests one handler run is followed over (the server has no bound).
MaxRequests == 2

Secrets == {"secret", "other_secret"}

\* Raw request bodies: a check_run payload, and bytes that are no JSON.
Bodies == {"check_run.created.json", "junk"}

\* HMAC-SHA256 as a keyed function of the raw bytes: two macs are equal only
\* when key and bytes are.
HmacSha256(key, body) == [key |-> key, body |-> body]

NoBytes == [key |-> None, body |-> None]

\* The byte strings a signature can decode to: the macs, and the empty string.
Slices == {HmacSha256(k, b) : k \in Secrets, b \in Bodies} \cup {NoBytes}

\* The text after the last '=' of the header: hexadecimal digits that encode
\* some bytes, or something hex::decode rejects.
HexTexts == [hex : {TRUE}, bytes : Slices] \cup {[hex |-> FALSE, bytes |-> NoBytes]}

\* HeaderMap entry X-Hub-Signature-256: absent, not valid text, or text with
\* or without a `sha256=` in front.
SignatureHeaders ==
    {[kind |-> "absent", prefix |-> None, last |-> [hex |-> FALSE, bytes |-> NoBytes]],
     [kind |-> "not_text", prefix |-> None, last |-> [hex |-> FALSE, bytes |-> NoBytes]]}
        \cup [kind : {"text"}, prefix : {"sha256", None}, last : HexTexts]

EventHeaders == {None, "check_run", "not_a_real_event"}

WebhookRequests == [signature : SignatureHeaders, event : EventHeaders, body : Bodies]

NoWebhookRequest ==
    [signature |-> [kind |-> "absent", prefix |-> None,
                    last |-> [hex |-> FALSE, bytes |-> NoBytes]],
     event |-> None, body |-> "junk"]

\* get_header: the header as a String, or BadRequest
GetHeader(h) == IF h.kind = "text" THEN [ok |-> TRUE, status |-> 0]
                ELSE [ok |-> FALSE, status |-> 400]

\* A comparison that lets every signature pass.
AcceptsAnySlice(mac, slice) == TRUE

\* `hmac.verify_slice(decoded_signature.as_slice())`
VerifySlice(mac, slice) == mac = slice

\* verify_signature: split at '=', take the last part, hex::decode it, and
\* compare it with the mac of the body under the secret
VerifySignature(body, h, secret) ==
    IF ~h.last.hex THEN [ok |-> FALSE, status |-> 400]
    ELSE IF ~VerifySlice(HmacSha256(secret, body), h.last.bytes)
    THEN [ok |-> FALSE, status |-> 401]
    ELSE [ok |-> TRUE, status |-> 0]

\* deserialize_event: a check_run payload must parse, every other event type is
\* GitHubEvent::Unsupported
DeserializeEvent(event_type, body) ==
    IF event_type = "check_run"
    THEN IF body = "check_run.created.json"
         THEN [ok |-> TRUE, status |-> 0, event |-> "CheckRun"]
         ELSE [ok |-> FALSE, status |-> 500, event |-> None]
    ELSE [ok |-> TRUE, status |-> 0, event |-> "Unsupported"]

\* The status github_webhook_handler answers with before it sends anything, or
\* 0 when the request got as far as the queue.
Rejection(r, secret) ==
    IF ~GetHeader(r.signature).ok THEN GetHeader(r.signature).status
    ELSE IF ~VerifySignature(r.body, r.signature, secret).ok
    THEN VerifySignature(r.body, r.signature, secret).status
    ELSE IF r.event = None THEN 400
    ELSE IF ~DeserializeEvent(r.event, r.body).ok
    THEN DeserializeEvent(r.event, r.body).status
    ELSE 0

IngressInit ==
    /\ github_webhook_secret \in Secrets
    /\ ipc = "idle"
    /\ ireq = NoWebhookRequest
    /\ queue = <<>>
    /\ ianswer = 0
    /\ nreq = 0

\* POST /github arrives
IngressReceive ==
    /\ ipc = "idle"
    /\ nreq < MaxRequests
    /\ nreq' = nreq + 1
    /\ ireq' \in WebhookRequests
    /\ ipc' = "received"
    /\ ianswer' = 0
    /\ UNCHANGED <<github_webhook_secret, queue, engineVars, stateVars, tokenVars,
                   clientVars, taskVars>>

\* github_webhook_handler up to `.send()` of the SQS message
IngressHandle ==
    /\ ipc = "received"
    /\ IF Rejection(ireq, github_webhook_secret) # 0
       THEN /\ ianswer' = Rejection(ireq, github_webhook_secret)
            /\ ipc' = "idle"
       ELSE /\ ipc' = "sending"
            /\ UNCHANGED ianswer
    /\ UNCHANGED <<github_webhook_secret, ireq, queue, nreq, engineVars, stateVars,
                   tokenVars, clientVars, taskVars>>

\* `.send().await.unwrap()`: the queue accepted the message (201), or the
\* handler panics and no answer is written (-1)
IngressSent ==
    /\ ipc = "sending"
    /\ \/ /\ queue' = Append(queue, [event |-> DeserializeEvent(ireq.event, ireq.body).event,
                                       body |-> ireq.body])
          /\ ianswer' = 201
       \/ /\ ianswer' = -1
          /\ UNCHANGED queue
    /\ ipc' = "idle"
    /\ UNCHANGED <<github_webhook_secret, ireq, nreq, engineVars, stateVars, tokenVars,
                   clientVars, taskVars>>

----------------------------------------------------------------------------
(* Specifications                                                          *)

\* The engine alone: no caller of the token factory ever starts.
EngineQuiet ==
    /\ variant = "chain" /\ teardown = None /\ nTasks = 0 /\ epc = "returned"
    /\ task = "t1" /\ output = None /\ store = EmptyState
    /\ result = Result("unset", None, EmptyState) /\ calls = <<>>
    /\ executing = <<>> /\ seen = EmptyState /\ program = "any"

StateQuiet == StateInit

ClientQuiet == ClientInit /\ installation_id = 1

TaskQuiet ==
    /\ TaskInit
    /\ tkind = "CreateCheckRun"
    /\ tstate = [t \in TaskTypes |-> Absent]

\* Nothing of the parts that came last is in use.
IngressQuiet == IngressInit /\ github_webhook_secret = "secret"

RestQuiet == TaskQuiet /\ IngressQuiet

TokenQuiet ==
    /\ TokenInit
    /\ private_key = "valid"
    /\ app_token.token = Str("app_token")
    /\ installation_token.token = Str("installation_token")

EngineNext ==
    \/ StartTask
    \/ StartCompleteTask
    \/ ChainExecuteTask
    \/ ChainExecuteCompleteTask
    \/ ListExecuteTask
    \/ ListExecuteCompleteTask

StateNext ==
    \/ StateInsert
    \/ StateGet
    \/ StateGetMut

TokenNext ==
    \/ \E c \in Callers :
        \/ AppStart(c)
        \/ AppLockRead(c)
        \/ AppRead(c)
        \/ AppSign(c)
        \/ AppLockWrite(c)
        \/ AppWrite(c)
        \/ InstallationStart(c)
        \/ InstallationLockRead(c)
        \/ InstallationRead(c)
        \/ InstallationCallApp(c)
        \/ InstallationSend(c)
        \/ InstallationResponse(c)
        \/ InstallationLockWrite(c)
        \/ InstallationWrite(c)

\* Automaton::execute, in both forms.
EngineSpecInit == EngineInit /\ StateQuiet /\ TokenQuiet /\ ClientQuiet /\ RestQuiet

EngineSpec == EngineSpecInit /\ [][EngineNext]_vars

\* The same, where execute() keeps running and every task's future resolves.
EngineLiveSpec == EngineSpecInit /\ [][EngineNext]_vars /\ WF_vars(EngineNext)

\* One State and the operations made on it, in any order.
StateSpecInit == StateInit /\ EngineQuiet /\ TokenQuiet /\ ClientQuiet /\ RestQuiet

StateSpec == StateSpecInit /\ [][StateNext]_vars

\* One GitHubClient, used by one task, on the TokenFactory its constructor made.
ClientNext ==
    \/ ClientCall
    \/ ClientAuthorize
    \/ ClientFactoryStep
    \/ ClientBuild
    \/ ClientResponse

ClientSpecInit ==
    /\ ClientInit
    /\ TokenInit
    /\ app_token.token = Str("app_token")
    /\ installation_token.token = Str("installation_token")
    /\ EngineQuiet
    /\ StateQuiet
    /\ RestQuiet

ClientSpec == ClientSpecInit /\ [][ClientNext]_vars

\* One per-endpoint task executed once on a State.
TaskNext ==
    \/ TaskExecute
    \/ TaskResponse
    \/ TaskSuitesListed
    \/ TaskSubResponse

TaskSpecInit ==
    TaskInit /\ EngineQuiet /\ StateQuiet /\ TokenQuiet /\ ClientQuiet /\ IngressQuiet

TaskSpec == TaskSpecInit /\ [][TaskNext]_vars

\* The webhook handler, one request after the other.
IngressNext ==
    \/ IngressReceive
    \/ IngressHandle
    \/ IngressSent

IngressSpecInit ==
    IngressInit /\ EngineQuiet /\ StateQuiet /\ TokenQuiet /\ ClientQuiet /\ TaskQuiet

IngressSpec == IngressSpecInit /\ [][IngressNext]_vars

\* Concurrent callers of one TokenFactory.
TokenSpecInit == TokenInit /\ EngineQuiet /\ StateQuiet /\ ClientQuiet /\ RestQuiet

TokenSpec == TokenSpecInit /\ [][TokenNext]_vars

\* The steps of a call that wait for nothing but the scheduler and a free
\* Mutex: all but the signature and the arrival of the exchange response.
CallerStep(c) ==
    \/ AppLockRead(c) \/ AppRead(c) \/ AppLockWrite(c) \/ AppWrite(c)
    \/ InstallationLockRead(c) \/ InstallationRead(c) \/ InstallationCallApp(c)
    \/ InstallationSend(c) \/ InstallationLockWrite(c) \/ InstallationWrite(c)

\* Fair scheduling of the callers: a caller that can go on with its own code,
\* the Mutex it waits for being free, does so.  Nothing makes a signature or
\* an exchange request complete.
TokenFairness == \A c \in Callers : WF_vars(CallerStep(c))

TokenLiveSpec == TokenSpecInit /\ [][TokenNext]_vars /\ TokenFairness

Spec == TokenSpec

----------------------------------------------------------------------------
(* Claims about Automaton::execute (checked under EngineSpec)              *)

LastCall == calls[Len(calls)]

\* C1: when a task of the main loop returns an error, execute() returns that
\* same error, and neither a further main-loop task nor the completion task
\* is executed: the failed call is the last call of the run.
C1_ErrorShortCircuits ==
    \A i \in 1..Len(calls) :
        (calls[i].phase = "main" /\ calls[i].kind = "Err") =>
            /\ i = Len(calls)
            /\ epc = "returned"
            /\ result.kind = "Err"
            /\ result.val = calls[i].val

C1_Witness ==
    /\ teardown = "custom"
    /\ Len(calls) >= 2
    /\ LastCall.phase = "main" /\ LastCall.kind = "Err"
    /\ epc = "returned" /\ result.kind = "Err"

\* C2: the completion task is executed at most once, only as the last call of
\* the run and never before or between main-loop tasks (in the chained form
\* right after the main-loop call that returned Complete); and a run that has
\* returned after its main loop ended with Complete, with a completion task
\* configured, has executed it exactly once.
C2_TeardownOnceAfterLoop ==
    /\ Len(TeardownCalls) <= 1
    /\ \A i \in 1..Len(calls) :
        calls[i].phase = "teardown" =>
            /\ i = Len(calls)
            /\ teardown # None
            /\ variant = "chain" =>
                 i > 1 /\ calls[i - 1].phase = "main" /\ calls[i - 1].kind = "Complete"
    /\ (/\ epc = "returned"
        /\ teardown # None
        /\ \E i \in 1..Len(calls) : calls[i].phase = "main" /\ calls[i].kind = "Complete")
       => Len(TeardownCalls) = 1

C2_Witness ==
    /\ variant = "chain"
    /\ teardown = "custom"
    /\ epc = "returned"
    /\ Len(calls) = 3
    /\ calls[2].phase = "main" /\ calls[2].kind = "Complete"
    /\ calls[3].phase = "teardown" /\ calls[3].kind = "Next"

----------------------------------------------------------------------------
(* Claims about TokenFactory (checked under TokenSpec)                     *)

\* The step in which caller c leaves position p.
Leaves(c, p) == pc[c] = p /\ pc'[c] # p

\* C3: a caller holds the app_token mutex only while it reads or writes that
\* slot, and the installation_token mutex only while it reads or writes that
\* one; while it signs a JWT or its exchange request is in flight it holds
\* neither.
C3_NoLockAcrossIO ==
    \A c \in Callers :
        /\ app_lock = c => pc[c] \in {"app_reading", "app_writing"}
        /\ installation_lock = c => pc[c] \in {"inst_reading", "inst_writing"}
        /\ pc[c] \in {"app_signing", "inst_send", "inst_waiting"} =>
              app_lock # c /\ installation_lock # c

C3_Witness ==
    \E c, d \in Callers :
        /\ pc[c] = "inst_waiting" /\ trail[c].committed
        /\ pc[d] = "app_signing"
        /\ app_lock = None /\ installation_lock = None

\* C4: the token in either slot, and every token a caller got from a slot or
\* from its own commit, is a token that was built as a whole: the credential
\* of one token is never paired with the expiry of another.
C4_NoTornToken ==
    /\ app_token \in produced
    /\ installation_token \in produced
    /\ \A c \in Callers :
        /\ ret[c].kind = "Ok" => ret[c].tok \in produced
        /\ pc[c] \in {"inst_send", "inst_waiting"} => frame[c].app_token \in produced

C4_Witness ==
    \E c \in Callers :
        /\ ret[c].kind = "Ok" /\ ret[c].cached
        /\ ret[c].tok.token[1] = "jwt"
        /\ Cardinality(produced) >= 4

\* C5: a caller that found the token expired commits the token it produced
\* itself whatever the slot holds by then (the last writer wins), and returns
\* that same token.
C5_LastWriterWins ==
    [][\A c \in Callers :
          /\ Leaves(c, "app_writing") =>
                /\ app_token' = frame[c].token
                /\ op[c] = "app" => ret'[c] = Returned("Ok", frame[c].token, None, FALSE)
                /\ op[c] = "installation" => frame'[c].app_token = frame[c].token
          /\ Leaves(c, "inst_writing") =>
                /\ installation_token' = frame[c].inst_token
                /\ ret'[c] = Returned("Ok", frame[c].inst_token, None, FALSE)]_vars

\* Both callers minted; the one with the older token committed last, so both
\* had read the slot before either wrote.
C5_Witness ==
    \E c, d \in Callers :
        /\ pc[c] = "idle" /\ pc[d] = "idle" /\ op[c] = "app" /\ op[d] = "app"
        /\ ret[c].kind = "Ok" /\ ret[d].kind = "Ok"
        /\ ~ret[c].cached /\ ~ret[d].cached
        /\ ret[c].tok.expires_at > ret[d].tok.expires_at
        /\ app_token = ret[d].tok

\* The cached self-scope token is a JWT whose `exp` claim lies after caller
\* c's `now`: c calls within the validity window of the minted token.
InWindow(c) ==
    /\ app_token.token[1] = "jwt"
    /\ app_token.token[4] > Timestamp(frame[c].now_app)

\* C6 (as claimed): a caller whose previous app() call minted the token that
\* is still in the slot, and which calls app() again within that token's
\* 10-minute validity window, gets a clone of it: the identical credential.
C6_ClaimedCloneWithinWindow ==
    [][\A c \in Callers :
          (/\ Leaves(c, "app_reading") /\ op[c] = "app"
           /\ ret[c].kind = "Ok" /\ ~ret[c].cached /\ ret[c].tok = app_token
           /\ InWindow(c)) =>
              /\ ret'[c].cached
              /\ ret'[c].tok.token = ret[c].tok.token]_vars

\* C7: when the cached self-scope token has expires_at > now at the read,
\* app() returns a clone of it, signs nothing and changes neither slot.
C7_AppCachedPath ==
    [][\A c \in Callers :
          (Leaves(c, "app_reading") /\ app_token.expires_at > frame[c].now_app) =>
              /\ op[c] = "app" =>
                    pc'[c] = "idle" /\ ret'[c] = Returned("Ok", app_token, None, TRUE)
              /\ op[c] = "installation" =>
                    pc'[c] = "inst_send" /\ frame'[c].app_token = app_token
              /\ UNCHANGED <<app_token, installation_token, produced, clock>>]_vars

C7_Witness ==
    \E c \in Callers :
        /\ pc[c] = "idle" /\ op[c] = "app"
        /\ ret[c].kind = "Ok" /\ ret[c].cached
        /\ ret[c].tok = app_token

\* C8 (as claimed): when the cached token is expired and signing succeeds,
\* app() stores the token it minted, returns it, and the returned credential
\* differs from the expired credential it found in the slot.
C8_ClaimedFreshCredential ==
    [][\A c \in Callers :
          Leaves(c, "app_writing") =>
              /\ app_token' = frame[c].token
              /\ op[c] = "app" => ret'[c].tok = frame[c].token
              /\ frame[c].token.token # trail[c].seen_app.token]_vars

\* C9: when installation() found both tokens expired, its POST is issued only
\* after the token minted by its own app() call was committed to the
\* app_token slot, and carries that token's credential as the Bearer.
C9_RefreshBeforeExchange ==
    [][\A c \in Callers :
          (Leaves(c, "inst_send") /\ ~(trail[c].seen_app.expires_at > frame[c].now_app)) =>
              /\ pc'[c] = "inst_waiting"
              /\ trail[c].committed
              /\ frame[c].token \in produced
              /\ frame[c].token.token[1] = "jwt"
              /\ trail'[c].posted.bearer = frame[c].token.token
              /\ trail'[c].posted.id = frame[c].installation_id]_vars

C9_Witness ==
    \E c \in Callers :
        /\ pc[c] = "inst_waiting"
        /\ trail[c].committed
        /\ trail[c].posted.bearer = frame[c].token.token
        /\ app_token # frame[c].token

\* C10: when the cached delegated token has expires_at > now at the read,
\* installation() returns a clone of it at once: no call of app(), no
\* exchange request, neither slot changed.
C10_InstallationCachedPath ==
    [][\A c \in Callers :
          (Leaves(c, "inst_reading")
             /\ installation_token.expires_at > frame[c].now_inst) =>
              /\ pc'[c] = "idle"
              /\ ret'[c] = Returned("Ok", installation_token, None, TRUE)
              /\ UNCHANGED <<app_token, installation_token, produced, clock>>]_vars

C10_Witness ==
    \E c \in Callers :
        /\ pc[c] = "idle" /\ op[c] = "installation"
        /\ ret[c].kind = "Ok" /\ ret[c].cached
        /\ ret[c].tok = installation_token

\* C11: an installation(id) call that found the cached delegated token expired
\* goes on to the exchange; its POST is addressed to that id; and when the
\* response carries a token, the call returns a token whose credential is the
\* response's `token` field and the installation_token slot holds that token
\* from the commit on.
C11_ExchangeStoresResponse ==
    [][\A c \in Callers :
          /\ (Leaves(c, "inst_reading")
                /\ ~(installation_token.expires_at > frame[c].now_inst)) =>
                 pc'[c] = "inst_call_app"
          /\ Leaves(c, "inst_send") =>
                 trail'[c].posted.id = frame[c].installation_id
          /\ Leaves(c, "inst_writing") =>
                 /\ trail[c].posted.id = frame[c].installation_id
                 /\ trail[c].response \in ResponseTokens
                 /\ ret'[c].kind = "Ok"
                 /\ ret'[c].tok.token = Str(trail[c].response)
                 /\ installation_token' = ret'[c].tok]_vars

C11_Witness ==
    \E c \in Callers :
        /\ pc[c] = "idle" /\ op[c] = "installation"
        /\ ret[c].kind = "Ok" /\ ~ret[c].cached
        /\ ret[c].tok.token = Str("ghs_b")
        /\ installation_token = ret[c].tok

\* Credentials that came out of a token exchange.
Fetched == {Str(r) : r \in ResponseTokens}

\* C12: a delegated token fetched by installation() is committed with
\* expires_at equal to the `now` that call read at its start; and an
\* installation() call whose own `now` is not earlier than the expires_at of
\* the fetched token it finds in the slot does not return it: it goes on to
\* a new exchange.
C12_FetchedTokenExpiresAtNow ==
    [][\A c \in Callers :
          /\ Leaves(c, "inst_writing") =>
                 /\ installation_token'.token \in Fetched
                 /\ installation_token'.expires_at = frame[c].now_inst
          /\ (Leaves(c, "inst_reading")
                /\ installation_token.token \in Fetched
                /\ frame[c].now_inst >= installation_token.expires_at) =>
                 /\ pc'[c] = "inst_call_app"
                 /\ UNCHANGED ret]_vars

\* A second exchange is in flight for a caller that found a fetched token in
\* the slot.
C12_Witness ==
    \E c \in Callers :
        /\ pc[c] = "inst_waiting"
        /\ trail[c].seen_inst.token \in Fetched
        /\ frame[c].now_inst >= trail[c].seen_inst.expires_at

\* C13: a placeholder of TokenFactory::new is never valid when a call reads
\* it: app() that finds the placeholder goes on to sign, installation() that
\* finds its placeholder goes on to the exchange, and no call ever returns a
\* placeholder credential.
C13_PlaceholdersNeverServed ==
    [][\A c \in Callers :
          /\ (Leaves(c, "app_reading") /\ app_token.token \in Placeholders) =>
                 pc'[c] = "app_signing"
          /\ (Leaves(c, "inst_reading") /\ installation_token.token \in Placeholders) =>
                 pc'[c] = "inst_call_app"
          /\ ret'[c].kind = "Ok" => ret'[c].tok.token \notin Placeholders
          /\ pc'[c] \in {"inst_send", "inst_waiting"} =>
                 frame'[c].app_token.token \notin Placeholders]_vars

\* The first installation() on a new factory has returned an exchanged token
\* and the app_token slot holds a minted JWT.
C13_Witness ==
    \E c \in Callers :
        /\ ncalls = 1
        /\ pc[c] = "idle" /\ op[c] = "installation"
        /\ ret[c].kind = "Ok" /\ ~ret[c].cached
        /\ ret[c].tok.token \in Fetched
        /\ app_token.token[1] = "jwt"

\* C14 (as claimed): the self-scope token whose credential installation()
\* puts into the Authorization header of the exchange request is valid under
\* the Token validity rule, expires_at > now, when the request is issued.
C14_ClaimedBearerValid ==
    [][\A c \in Callers :
          Leaves(c, "inst_send") => frame[c].app_token.expires_at > clock]_vars

----------------------------------------------------------------------------
(* Further claims about Automaton::execute (checked under EngineSpec)      *)

\* C15: at most one task of a run is inside Task::execute at any time, and
\* only while execute() awaits it; a main-loop task is executing only when
\* every call before it has returned Next (chained form: the last of them
\* named it as the successor; list form: task i runs after exactly i - 1
\* calls, and was handed the State as task i - 1 left it).
C15_OneTaskAtATime ==
    /\ Len(executing) <= 1
    /\ (executing # <<>>) <=> (epc \in {"in_task", "in_teardown"})
    /\ epc = "in_teardown" => executing = <<"complete_task">>
    /\ epc = "in_task" =>
          /\ executing = <<Label(task)>>
          /\ \A i \in 1..Len(calls) : calls[i].phase = "main" /\ calls[i].kind = "Next"
          /\ (variant = "chain" /\ calls # <<>>) => LastCall.val = task
          /\ variant = "list" => (Len(calls) = task - 1 /\ seen = store)

\* The second task of a list is executing on a State the first task wrote.
C15_Witness ==
    /\ variant = "list" /\ program = "any"
    /\ epc = "in_task" /\ task = 2
    /\ executing = <<"2">>
    /\ seen["Flag"] = "World"

\* The chained run's main loop ended with Complete: that call, the last
\* main-loop call of the log.
LoopCompleted ==
    /\ variant = "chain" /\ epc = "returned" /\ MainCalls # <<>>
    /\ MainCalls[Len(MainCalls)].kind = "Complete"

\* C16: when the main loop ended with Complete(out) and the completion task
\* returned Complete(out2), execute() returns Ok(out2); when no completion
\* task is configured, it returns Ok(out).
C16_TeardownOutputSupersedes ==
    LoopCompleted =>
        /\ (LastCall.phase = "teardown" /\ LastCall.kind = "Complete") =>
               result = Result("Ok", LastCall.val, EmptyState)
        /\ teardown = None =>
               /\ LastCall.phase = "main"
               /\ result = Result("Ok", LastCall.val, EmptyState)

\* The loop produced o1, the completion task o2, and execute() returned o2.
C16_Witness ==
    /\ LoopCompleted
    /\ MainCalls[Len(MainCalls)].val = "o1"
    /\ LastCall.phase = "teardown" /\ LastCall.kind = "Complete" /\ LastCall.val = "o2"
    /\ result.kind = "Ok" /\ result.val = "o2"

\* C17: when the main loop ended with Complete and the completion task
\* returned an error, execute() returns that error, not the loop's output
\* nor the State.
C17_TeardownErrorIsResult ==
    (calls # <<>> /\ LastCall.phase = "teardown" /\ LastCall.kind = "Err") =>
        /\ epc = "returned"
        /\ result = Result("Err", LastCall.val, EmptyState)

\* The loop completed with an output and the completion task then failed.
C17_Witness ==
    /\ variant = "chain" /\ epc = "returned"
    /\ Len(calls) >= 2
    /\ calls[Len(calls) - 1].phase = "main" /\ calls[Len(calls) - 1].kind = "Complete"
    /\ LastCall.phase = "teardown" /\ LastCall.kind = "Err"
    /\ output \in Outputs /\ result.kind = "Err"

\* C18: once a main-loop call has returned Complete, every later call is the
\* completion task's, no main-loop task is executing, and in the list form
\* the iterator stays where it was: the remaining tasks are neither
\* initialized nor executed.
C18_CompleteEndsMainLoop ==
    \A i \in 1..Len(calls) :
        (calls[i].phase = "main" /\ calls[i].kind = "Complete") =>
            /\ \A j \in (i + 1)..Len(calls) : calls[j].phase = "teardown"
            /\ epc \in {"teardown", "in_teardown", "returned"}
            /\ executing \in {<<>>, <<"complete_task">>}
            /\ variant = "list" => calls[i].task = task

\* The first of two listed tasks completed; only the completion task ran
\* after it.
C18_Witness ==
    /\ variant = "list" /\ nTasks = 2 /\ epc = "returned"
    /\ Len(calls) = 2
    /\ calls[1].phase = "main" /\ calls[1].kind = "Complete" /\ calls[1].task = 1
    /\ calls[2].phase = "teardown"

\* C19: in the HelloWorld automaton (Hello inserts the Message and signals
\* Next, World appends to it in place) no task fails, World is handed a State
\* that holds "Hello", and the State execute() returns holds
\* "Hello, World!": both mutations, in that order.
C19_HelloWorld ==
    program = "hello_world" =>
        /\ \A i \in 1..Len(calls) : calls[i].kind # "Err"
        /\ (epc = "in_task" /\ task = 2) => seen["Message"] = "Hello"
        /\ epc = "returned" =>
              /\ result.kind = "Ok"
              /\ result.state["Message"] = "Hello, World!"
              /\ Len(calls) = 3
              /\ calls[1].task = 1 /\ calls[2].task = 2
              /\ calls[3].phase = "teardown"

C19_Witness ==
    /\ program = "hello_world"
    /\ epc = "returned"
    /\ result.kind = "Ok"
    /\ result.state["Message"] = "Hello, World!"

----------------------------------------------------------------------------
(* Claims about the run as a whole (checked under EngineLiveSpec)          *)

\* A chained task returns Next and the loop goes round.
NextTransition == variant = "chain" /\ epc = "in_task" /\ epc' = "loop"

\* The chain has reached a Complete or an error.
ChainEnded ==
    /\ variant = "chain" /\ MainCalls # <<>>
    /\ MainCalls[Len(MainCalls)].kind \in {"Complete", "Err"}

\* C20: the main loop goes round whatever number of Next transitions came
\* before: at the head of the loop the next task is always executed; once
\* the chain has reached a Complete or an error, execute() eventually
\* returns; and in a run whose tasks return Next again and again forever,
\* execute() never returns.
C20_UnboundedLoop ==
    /\ [](epc = "loop" => <>(epc = "in_task"))
    /\ ChainEnded ~> (epc = "returned")
    /\ []<><<NextTransition>>_vars => [](variant = "chain" => epc # "returned")

\* More Next transitions than the log holds main-loop calls, and the next
\* task is executing.
C20_Witness ==
    /\ variant = "chain" /\ epc = "in_task"
    /\ Len(calls) = MaxSteps + 1
    /\ \A i \in 1..Len(calls) : calls[i].kind = "Next"

----------------------------------------------------------------------------
(* Claims about the list form and the State (EngineSpec, StateSpec)        *)

\* C21: a list run in which no task returned an error and that has returned
\* executed the completion task exactly once, as its last call, whether a
\* task returned Complete or the list was exhausted; with the default
\* NoopTask the returned State is the State the main loop left.
C21_ListTeardownOnce ==
    (/\ variant = "list" /\ epc = "returned"
     /\ \A i \in 1..Len(calls) : calls[i].kind # "Err") =>
        /\ Len(TeardownCalls) = 1
        /\ LastCall.phase = "teardown"
        /\ Len(MainCalls) = Len(calls) - 1
        /\ result.kind = "Ok"
        /\ teardown = "noop" => result.state = seen

\* A list of two tasks ended by Complete of the second; the default
\* completion task ran and the State written by the tasks was returned.
C21_Witness ==
    /\ variant = "list" /\ program = "any" /\ teardown = "noop"
    /\ nTasks = 2 /\ epc = "returned"
    /\ Len(calls) = 3
    /\ calls[1].kind = "Next" /\ calls[2].kind = "Complete"
    /\ calls[3].phase = "teardown"
    /\ result.kind = "Ok" /\ result.state["Message"] = "Hello"

\* C22 (as stated): a get::<T>() made after insert(v), with no insert of a T in
\* between, returns v, whatever operations came before the insert.
C22_ClaimedGetReturnsInserted ==
    (lastop.op = "get" /\ inserts[lastop.type] # None) =>
        lastop.ret = inserts[lastop.type]

\* C22 (amended): a get::<T>() made after insert(v), with no insert of a T and no
\* write through a get_mut::<T>() reference in between, returns v, whatever
\* operations came before the insert.
C22_GetReturnsInserted ==
    (/\ lastop.op = "get"
     /\ inserts[lastop.type] # None
     /\ lastop.type \notin touched) =>
        lastop.ret = inserts[lastop.type]

C22_Witness ==
    /\ lastop = [op |-> "get", type |-> "Message", arg |-> None, ret |-> "World"]
    /\ inserts["Message"] = "World"
    /\ touched = {"Flag"}

\* C23: the State holds at most one value per type: insert returns None when
\* nothing of the type was stored and the displaced value otherwise, the slot
\* then holds the inserted value, and a get that follows yields it.
C23_InsertReplaces ==
    [][/\ lastop'.op = "insert" =>
            /\ lastop'.ret = store[lastop'.type]
            /\ store'[lastop'.type] = lastop'.arg
            /\ Get(store', lastop'.type) = lastop'.arg
       /\ (lastop.op = "insert" /\ lastop'.op = "get" /\ lastop'.type = lastop.type) =>
            lastop'.ret = lastop.arg]_vars

C23_Witness ==
    /\ lastop = [op |-> "insert", type |-> "Message", arg |-> "World", ret |-> "Hello"]
    /\ store["Message"] = "World"

\* C24: get::<T>() and get_mut::<T>() return None while no T was ever inserted,
\* whatever the State holds of other types.
C24_MissingTypeIsNone ==
    (lastop.op \in {"get", "get_mut"} /\ inserts[lastop.type] = None) =>
        lastop.ret = None

C24_Witness ==
    /\ lastop = [op |-> "get", type |-> "Flag", arg |-> None, ret |-> None]
    /\ inserts["Flag"] = None
    /\ store["Message"] = "Hello"

\* C25: an operation changes at most the slot of its own type, get changes
\* nothing, no operation empties a slot, and once a T has been inserted
\* get::<T>() is Some for the rest of the State's life.
C25_Frame ==
    /\ [](\A t \in Types : inserts[t] # None => Get(store, t) # None)
    /\ [][/\ lastop'.op \in {"insert", "get_mut"} =>
                \A u \in Types \ {lastop'.type} : store'[u] = store[u]
           /\ lastop'.op = "get" => store' = store
           /\ \A t \in Types : store[t] # None => store'[t] # None]_vars

C25_Witness ==
    /\ lastop = [op |-> "insert", type |-> "Flag", arg |-> "World", ret |-> None]
    /\ store = [t \in Types |-> IF t = "Flag" THEN "World" ELSE "Hello"]
    /\ touched = {}

----------------------------------------------------------------------------
(* Claims about minting and the exchange (TokenSpec, TokenLiveSpec)        *)

\* C26: every JWT that generate_jwt signs has iat 60 seconds before and exp 600
\* seconds after one and the same clock reading (so exp - iat = 660), and the
\* app id as a string for iss.
C26_JwtClaims ==
    [][\A c \in Callers :
        (Leaves(c, "app_signing") /\ pc'[c] = "app_lock_write") =>
            LET jwt == frame'[c].token.token
                now == Timestamp(clock')
            IN /\ jwt[1] = "jwt"
               /\ jwt[2] = now - IatSkewSeconds
               /\ jwt[4] = now + ExpSeconds
               /\ jwt[4] - jwt[2] = 660
               /\ jwt[3] = ToString(app_id)]_vars

C26_Witness ==
    \E c \in Callers :
        /\ pc[c] = "app_lock_write"
        /\ clock = MaxClock
        /\ frame[c].token.expires_at = 0
        /\ frame[c].token.token = <<"jwt", Timestamp(MaxClock) - 60, "1",
                                    Timestamp(MaxClock) + 600>>

C28_ClaimedStatusMapped ==
    [][\A c \in Callers :
        (Leaves(c, "inst_waiting") /\ trail'[c].status \notin {0} \cup (200..299)) =>
            /\ pc'[c] = "idle"
            /\ ret'[c].kind = "Err"
            /\ ret'[c].err = IF trail'[c].status = 404 THEN "NotFound" ELSE "Request"
            /\ installation_token' = installation_token]_vars

\* C29: under fair scheduling every wait for a cache lock ends with the lock
\* granted, whatever signature or exchange request of another caller never
\* completes, and a call whose own mint or exchange has completed (or that
\* needs none) returns.
C29_NoCallerStalled ==
    \A c \in Callers :
        /\ (pc[c] \in {"app_lock_read", "app_lock_write"}) ~> (app_lock = c)
        /\ (pc[c] \in {"inst_lock_read", "inst_lock_write"}) ~> (installation_lock = c)
        /\ (pc[c] = "inst_lock_write" \/ (pc[c] = "app_lock_write" /\ op[c] = "app"))
                ~> (pc[c] = "idle")
        /\ (pc[c] # "idle") ~> (pc[c] \in {"idle", "app_signing", "inst_waiting"})

\* A caller holds the app_token lock for its write while the exchange request
\* of the other caller is in flight.
C29_Witness ==
    \E c, d \in Callers :
        /\ pc[d] = "inst_waiting"
        /\ pc[c] = "app_writing" /\ app_lock = c

----------------------------------------------------------------------------
(* Claims about the GitHubClient (ClientSpec)                              *)

\* C30: every request the client sends (get, post, patch, each page of
\* paginate) follows an installation(installation_id) call of its own that
\* returned a token, and carries that token as its Bearer; a request is sent
\* only in the step that received the token, and a call that failed is
\* followed by no request.
C30_EveryRequestAuthorized ==
    /\ [](/\ Len(requests) = Cardinality({g \in 1..Len(grants) : grants[g].kind = "Ok"})
          /\ \A i \in 1..Len(requests) :
                LET g == requests[i].call
                IN /\ g \in 1..Len(grants)
                   /\ grants[g].kind = "Ok"
                   /\ requests[i].bearer = <<"Bearer", grants[g].tok.token>>
                   /\ \A j \in 1..Len(requests) : requests[j].call = g => j = i)
    /\ [][/\ (requests' # requests) =>
                (/\ cpc = "authorizing" /\ pc[Client] = "idle"
                 /\ op[Client] = "installation"
                 /\ ret[Client].kind = "Ok"
                 /\ requests' = Append(requests, requests'[Len(requests')])
                 /\ requests'[Len(requests')].bearer = <<"Bearer", ret[Client].tok.token>>)
          /\ (cpc = "authorizing" /\ cpc' # cpc /\ ret[Client].kind = "Err") =>
                (/\ requests' = requests
                 /\ cresult'.kind = "Err"
                 /\ cpc' = "idle")
          /\ (cpc' = "authorizing" /\ cpc # cpc') =>
                (/\ frame'[Client].installation_id = installation_id
                 /\ ncalls' = ncalls + 1)]_vars

\* The second page of a paginate went out with the token of its own
\* installation() call, fetched after the one of the first page.
C30_Witness ==
    /\ Len(requests) = 2 /\ Len(grants) = 2
    /\ requests[2].method = "paginate" /\ requests[2].page = 2
    /\ requests[2].call = 2
    /\ ~grants[2].cached
    /\ grants[2].tok.expires_at > grants[1].tok.expires_at
    /\ requests[2].bearer = <<"Bearer", grants[2].tok.token>>
    /\ cpc = "sending"

----------------------------------------------------------------------------
(* Claims about the per-endpoint tasks (TaskSpec)                          *)

\* C31: a per-endpoint task executed on a State that lacks the client, the
\* owner, the repository name or the task's own input starts no GitHubClient
\* operation, returns an error, and leaves the State as it was.
C31_MissingInputIsError ==
    (\E t \in {"GitHubClient", "Login", "RepositoryName", InputType(tkind)} :
        ~tbefore[t].present) =>
        /\ tcalls = <<>>
        /\ tstate = tbefore
        /\ tpc \in {"ready", "returned"}
        /\ tpc = "returned" => tret.kind = "Err"

C31_Witness ==
    /\ tkind = "ListCheckRunsForCheckSuite"
    /\ tbefore["GitHubClient"].present /\ tbefore["Login"].present
    /\ tbefore["RepositoryName"].present /\ ~tbefore["CheckSuiteId"].present
    /\ tpc = "returned"
    /\ tret = TaskReturned("Err", "Unknown")
    /\ tcalls = <<>>

\* C32: a per-endpoint task changes the State only by the insert of its result,
\* in the step in which its request has succeeded and it returns Next; a task
\* that returned an error left the State exactly as it was.
C32_InsertOnlyOnSuccess ==
    /\ [](/\ tret.kind = "Next" =>
                /\ tcalls # <<>>
                /\ tstate[ResultType(tkind)].present
                /\ tstate = [tbefore EXCEPT ![ResultType(tkind)] = tstate[ResultType(tkind)]]
          /\ tret.kind # "Next" => tstate = tbefore)
    /\ [][tstate' # tstate =>
            /\ tpc \in {"requesting", "listing", "joining"}
            /\ tret'.kind = "Next"]_vars

\* The PATCH of an UpdateCheckRun failed: the check run an earlier task put
\* into the State is still there.
C32_Witness ==
    /\ tkind = "UpdateCheckRun"
    /\ tcalls = <<ClientCallOf("patch", 0)>>
    /\ tret = TaskReturned("Err", "Unknown")
    /\ tbefore["CheckRun"] = Present(<<0>>)
    /\ tstate = tbefore

\* C36: ListCheckRunsForGitSha lists the check suites first and then has the
\* check runs of all suites fetched at the same time, one sub-request per
\* suite; what it inserts is the per-suite results put together in the order
\* of the suites, in whatever order the sub-requests completed; when a
\* sub-request fails it returns an error and inserts nothing.
C36_JoinInSuiteOrder ==
    tkind = "ListCheckRunsForGitSha" =>
        /\ tcalls # <<>> => tcalls[1] = ClientCallOf("paginate", 0)
        /\ tpc = "listing" => Len(tcalls) = 1
        /\ tpc = "joining" =>
              /\ Len(tcalls) = 1 + Len(suites)
              /\ \A i \in 1..Len(suites) : tcalls[1 + i] = ClientCallOf("paginate", suites[i])
        /\ tret.kind = "Next" =>
              /\ \A i \in 1..Len(subs) : subs[i].present
              /\ Len(subs) = Len(suites)
              /\ tstate["VecCheckRun"] =
                    Present(Flatten([i \in 1..Len(subs) |-> subs[i].data]))
        /\ tret.kind = "Err" => tstate = tbefore

\* Two suites whose sub-requests completed in the reverse order.
C36_Witness ==
    /\ tkind = "ListCheckRunsForGitSha"
    /\ suites = <<2, 1>>
    /\ finished = <<2, 1>>
    /\ tret.kind = "Next"
    /\ tstate["VecCheckRun"].data = <<21, 22, 11>>


\* The request carries a signature header whose hex digits decode to the
\* HMAC-SHA256 of its raw body under the webhook secret.
SignatureVerified(r) ==
    /\ r.signature.kind = "text"
    /\ r.signature.last.hex
    /\ r.signature.last.bytes = HmacSha256(github_webhook_secret, r.body)

\* The handler has just finished its checks of the request.
IngressChecked == ipc = "received" /\ ipc' # "received"

\* C33: the webhook handler hands an event to the queue only for a request
\* whose X-Hub-Signature-256 header was verified against the HMAC-SHA256 of
\* the raw body; a request without a readable header, or with a signature
\* that is not hexadecimal, is answered 400, a request whose decoded signature
\* differs from the HMAC is answered 401, and in all of these cases nothing is
\* queued.
C33_QueueOnlyVerified ==
    [][/\ (queue' # queue \/ ipc' = "sending") => SignatureVerified(ireq)
       /\ IngressChecked =>
            /\ (ireq.signature.kind # "text" \/ ~ireq.signature.last.hex) =>
                    (ianswer' = 400 /\ queue' = queue /\ ipc' = "idle")
            /\ (/\ ireq.signature.kind = "text"
                /\ ireq.signature.last.hex
                /\ ~SignatureVerified(ireq)) =>
                    (ianswer' = 401 /\ queue' = queue /\ ipc' = "idle")]_vars

\* A verified request has been queued and answered 201, and the next request,
\* whose signature is not hexadecimal, was answered 400 and left the queue alone.
C33_Witness ==
    /\ Len(queue) = 1
    /\ nreq = 2
    /\ ipc = "idle"
    /\ ianswer = 400
    /\ ireq.signature.kind = "text"
    /\ ~ireq.signature.last.hex

\* C33 as stated: every request that carries a signature which does not match
\* the HMAC of its body is answered 401.
C33_ClaimedMismatchIs401 ==
    [][(IngressChecked /\ ireq.signature.kind = "text" /\ ~SignatureVerified(ireq))
            => ianswer' = 401]_vars


\* The latest request the client has sent.
LastRequest == requests[Len(requests)]

\* The requests of the latest operation: every operation starts at its
\* initial url, and no next link leads back to it.
OperationRequests ==
    LET first == CHOOSE i \in 1..Len(requests) :
                    /\ requests[i].page = 1
                    /\ \A j \in (i + 1)..Len(requests) : requests[j].page # 1
    IN  SubSeq(requests, first, Len(requests))

RECURSIVE EntitiesOfPages(_)
EntitiesOfPages(reqs) ==
    IF reqs = <<>> THEN <<>>
    ELSE EntitiesOf(reqs[1].page) \o EntitiesOfPages(Tail(reqs))

\* get, post or patch has returned after a response arrived.
SendRequestReturned ==
    /\ cpc = "idle"
    /\ cresponse.kind = "response"
    /\ LastRequest.method # "paginate"

PageFails(r) == r.kind = "transport" \/ r.body \in {"bad", "no_key", "bad_entities"}

\* C35: paginate requests the initial url and then each url a rel="next" link
\* gives, stops at the first response without such a link, and returns the
\* entities of every visited page in page order; when a page fails it returns
\* the error and nothing of what it had collected.
C35_PagesInOrder ==
    /\ [](cpc = "sending" => LastRequest.page = cop.page)
    /\ []((/\ cpc = "idle"
           /\ cresult.kind # "unset"
           /\ requests # <<>>
           /\ LastRequest.method = "paginate") =>
            /\ cresult.kind = "Ok" =>
                    /\ cresult.data = EntitiesOfPages(OperationRequests)
                    /\ GetNextUrl(cresponse.link) = [kind |-> "Ok", url |-> 0]
            /\ cresult.kind = "Err" => cresult.data = <<>>)
    /\ [][(cpc = "sending" /\ cop.method = "paginate" /\ cpc' # "sending") =>
            /\ PageFails(cresponse') =>
                    (cpc' = "idle" /\ cresult'.kind = "Err" /\ cresult'.data = <<>>)
            /\ (~PageFails(cresponse') /\ GetNextUrl(cresponse'.link).kind = "Ok") =>
                    IF GetNextUrl(cresponse'.link).url # 0
                    THEN cpc' = "client" /\ cop'.page = GetNextUrl(cresponse'.link).url
                    ELSE cpc' = "idle" /\ cresult'.kind = "Ok"]_vars

\* paginate visited the first and the third page and returned their entities.
C35_Witness ==
    /\ cpc = "idle"
    /\ requests # <<>>
    /\ LastRequest.method = "paginate"
    /\ cresult.kind = "Ok"
    /\ cresult.data = <<1, 2, 5, 6>>


\* The completion task of a chained automaton has returned Next(t).
TeardownReturnedNext ==
    /\ variant = "chain"
    /\ calls # <<>>
    /\ calls[Len(calls)].phase = "teardown"
    /\ calls[Len(calls)].kind = "Next"

\* C37: when the completion task returns Next(t) instead of Complete, t is
\* never executed, the completion task is not run again, and execute()
\* returns the output of the main loop's Complete transition unchanged.
C37_TeardownNextIgnored ==
    /\ [](TeardownReturnedNext =>
            /\ epc = "returned"
            /\ executing = <<>>
            /\ Len(TeardownCalls) = 1
            /\ Len(calls) > 1
            /\ calls[Len(calls) - 1].phase = "main"
            /\ calls[Len(calls) - 1].kind = "Complete"
            /\ result = Result("Ok", calls[Len(calls) - 1].val, EmptyState))
    /\ [][TeardownReturnedNext => UNCHANGED <<calls, executing, epc, task, result>>]_vars

\* The loop completed with o1, the completion task returned Next(t2), and
\* execute() returned o1 without another call.
C37_Witness ==
    /\ TeardownReturnedNext
    /\ calls[Len(calls)].val = "t2"
    /\ calls[Len(calls) - 1].val = "o1"
    /\ result = Result("Ok", "o1", EmptyState)
    /\ epc = "returned"


\* Caller c's installation() returns an error of the exchange: of the request
\* or of the parsing of the response.
ExchangeFails(c) == pc[c] = "inst_waiting" /\ pc'[c] = "idle"

\* No caller but c has called the factory.
OnlyCaller(c) == \A d \in Callers \ {c} : pc[d] = "idle" /\ ret[d].kind = "unset"

\* C38: app() never modifies the installation_token slot; and when
\* installation() has refreshed the expired self-scope token and the exchange
\* request or the parsing of the response then fails, the installation_token
\* slot is as it was and the app_token slot keeps the newly minted token.
C38_FailedExchangeKeepsMint ==
    [][/\ installation_token' # installation_token =>
            \E c \in Callers : op[c] = "installation" /\ pc[c] = "inst_writing"
       /\ \A c \in Callers :
            (ExchangeFails(c) /\ trail[c].committed) =>
                /\ installation_token' = installation_token
                /\ app_token' = app_token
                /\ app_token'.token[1] = "jwt"
                /\ OnlyCaller(c) =>
                        /\ app_token' = frame[c].app_token
                        /\ installation_token' = trail[c].seen_inst]_vars

\* The only call made, an installation() on a new factory, has minted and
\* stored a JWT and then failed on a response without a token: the JWT is in
\* the app_token slot, the placeholder in the installation_token slot.
C38_Witness ==
    /\ ncalls = 1
    /\ pc["c1"] = "idle"
    /\ ret["c1"].kind = "Err"
    /\ ret["c1"].err = "Serialization"
    /\ app_token.token[1] = "jwt"
    /\ installation_token = Token(Str("installation_token"), Expiration(0))

\* C39 as stated: the token an installation(id) call returns on a factory made
\* by TokenFactory::new (none of the tokens a test puts into the slots) was
\* issued for that id.
C39_ClaimedTokenOfSameId ==
    [][\A c \in Callers :
        (/\ op[c] = "installation"
         /\ pc[c] # "idle"
         /\ pc'[c] = "idle"
         /\ ret'[c].kind = "Ok"
         /\ app_token.token # Str("app")
         /\ ret'[c].tok.token # Str("installation")) =>
            IssuedFor(ret'[c].tok.token[2]) = frame[c].installation_id]_vars

====
